---- MODULE Spec2Model ----
(***************************************************************************)
(* Duffel backend: the /quote fare search over a destination pool and the  *)
(* /hold order builder, as implemented by the server variants kept in the  *)
(* repository (server.js and the unnamed parts 000, 001, 003, 004).        *)
(*                                                                         *)
(* Every await of a handler is a point where the provider answers; one     *)
(* action runs the handler from one await to the next (or to its response).*)
(***************************************************************************)
EXTENDS Integers, Sequences, FiniteSets, TLC

VARIABLES
    variant,            \* which server file is deployed
    apiKey,             \* DUFFEL_API_KEY / DUFFEL_ACCESS_TOKEN is set
    allowedOrigins,     \* ALLOWED_ORIGINS, parsed
    destinationPool,    \* DESTINATION_POOL, parsed
    maxPriceUsd,        \* Number(MAX_PRICE_USD || 200)
    pc,                 \* position of the handler
    body,               \* req.body of the request being handled
    pool,               \* the list the fan-out loop iterates
    idx,                \* position of the loop in pool
    results,            \* results / offersFound / cheapest
    errors,             \* errors (per-destination diagnostics)
    cands,              \* history: every per-destination candidate kept
    rejected,           \* history: every candidate dropped by the ceiling
    seen,               \* history: summary of every offer the provider returned
    offer,              \* /hold: the offer fetched by getOfferById
    order,              \* history: the order the provider answered with
    upstream,           \* history: the provider's non-success answers
    calls,              \* history: provider calls of this request, in order
    res,                \* the HTTP response, once sent
    nameInput,           \* the name handed to the name splitter
    parsed,             \* the given and family name it returned
    peer                \* the locals of a second request, while this one runs

config == <<variant, apiKey, allowedOrigins, destinationPool, maxPriceUsd>>
naming == <<nameInput, parsed>>
vars == <<variant, apiKey, allowedOrigins, destinationPool, maxPriceUsd, pc, body, pool, idx, results, errors, cands,
          rejected, seen, offer, order, upstream, calls, res, nameInput, parsed, peer>>

-----------------------------------------------------------------------------
(* Bounds of the model *)

MaxAmount == 3

NaN == 0 - 1
Amounts == {NaN} \cup (1..MaxAmount)
Currencies == {"USD", "EUR"}
Airports == {"BKK", "PNH", "KUL"}
ErrStatuses == {422, 500}
SearchErrStatuses == {500}
Ceilings == 1..(MaxAmount - 1)

RawOffers == [total_amount : Amounts, total_currency : Currencies, instant : BOOLEAN]
OfferSeqs == {<<>>} \cup {<<a>> : a \in RawOffers}
                    \cup {<<a, b>> : a \in RawOffers, b \in RawOffers}
Pools == {<<a>> : a \in Airports}
           \cup {p \in {<<a, b>> : a \in Airports, b \in Airports} : p[1] # p[2]}

QuoteVariants == {"server", "part_000b", "part_003", "part_004"}
HoldVariants == {"server", "part_000a", "part_001"}

\* Strings the handlers take apart are sequences of characters
Jane == <<"J">>
JaneDoe == <<"J", " ", "D">>
Test == <<"T", "e", "s", "t">>
User == <<"U", "s", "e", "r">>

-----------------------------------------------------------------------------
(* Numbers: total_amount is a string; Number() of it is NaN when it does   *)
(* not parse, and every comparison with NaN is false.                      *)

IsFinite(a) == a # NaN
Lt(a, b) == IsFinite(a) /\ IsFinite(b) /\ a < b
Gt(a, b) == IsFinite(a) /\ IsFinite(b) /\ a > b

\* String.prototype.toUpperCase, on the airport codes of the model
toUpperCase(code) ==
    CASE code = "bkk" -> "BKK"
      [] code = "pnh" -> "PNH"
      [] code = "kul" -> "KUL"
      [] OTHER -> code

\* String(destination).toUpperCase() === String(origin).toUpperCase() (server.js)
\* destination === origin                                      (the other files)
EqualsOrigin(destination, origin) ==
    IF variant = "server" THEN toUpperCase(destination) = toUpperCase(origin)
    ELSE destination = origin

\* the destination as the file sends and reports it
Sent(destination) == IF variant = "server" THEN toUpperCase(destination) ELSE destination

DEFAULT_DESTINATIONS == <<"PNH", "KUL">>
DiagnosticsCap == 5

HasAllowList == variant \in {"part_000b", "part_004"}
HasCeiling == variant \in {"part_000b", "part_004"}
HasDiagnostics == variant \in {"part_000b", "part_004"}

-----------------------------------------------------------------------------
(* Responses *)

NoDetails == [form |-> "none", text |-> ""]
NoRes == [status |-> 0, error |-> "", quote |-> <<>>, errors_sample |-> <<>>,
          hold |-> <<>>, details |-> NoDetails, missing |-> {}, ok |-> FALSE]
ErrorRes(st, msg) == [NoRes EXCEPT !.status = st, !.error = msg]

\* Array.prototype.slice(0, n)
Slice(s, n) == SubSeq(s, 1, IF Len(s) < n THEN Len(s) ELSE n)

-----------------------------------------------------------------------------
(* splitName *)

IsSpace(c) == c = " "

RECURSIVE TrimLeft(_)
TrimLeft(str) == IF str # <<>> /\ IsSpace(Head(str)) THEN TrimLeft(Tail(str)) ELSE str

RECURSIVE TrimRight(_)
TrimRight(str) ==
    IF str # <<>> /\ IsSpace(str[Len(str)])
    THEN TrimRight(SubSeq(str, 1, Len(str) - 1))
    ELSE str

\* String.prototype.trim
Trim(str) == TrimRight(TrimLeft(str))

RECURSIVE SplitFrom(_, _, _, _)
SplitFrom(str, i, parts, cur) ==
    IF i > Len(str) THEN (IF cur = <<>> THEN parts ELSE Append(parts, cur))
    ELSE IF IsSpace(str[i])
         THEN SplitFrom(str, i + 1, IF cur = <<>> THEN parts ELSE Append(parts, cur), <<>>)
         ELSE SplitFrom(str, i + 1, parts, Append(cur, str[i]))

\* trimmed.split(/\s+/), of a trimmed string that is not empty
SplitSpaces(str) == SplitFrom(str, 1, <<>>, <<>>)

RECURSIVE Join(_, _)
Join(parts, sep) ==
    IF parts = <<>> THEN <<>>
    ELSE IF Len(parts) = 1 THEN parts[1]
    ELSE parts[1] \o sep \o Join(Tail(parts), sep)

splitName(fullName) ==
    LET trimmed == Trim(fullName)
        parts == SplitSpaces(trimmed)
    IN  IF trimmed = <<>> THEN [given_name |-> Test, family_name |-> User]
        ELSE IF Len(parts) = 1 THEN [given_name |-> parts[1], family_name |-> User]
        ELSE [given_name |-> Join(SubSeq(parts, 1, Len(parts) - 1), <<" ">>),
              family_name |-> parts[Len(parts)]]

NoNameParsed == [given_name |-> <<>>, family_name |-> <<>>]

-----------------------------------------------------------------------------
(* Per-destination selection *)

\* offers as the handler holds them: the provider's fields, with the offer's id
Tag(d, offers) ==
    [i \in 1..Len(offers) |->
        [id |-> <<d, i>>, total_amount |-> offers[i].total_amount,
         total_currency |-> offers[i].total_currency, instant |-> offers[i].instant]]

RECURSIVE ReduceFrom(_, _, _)
ReduceFrom(xs, i, min) ==
    IF i > Len(xs) THEN min
    ELSE ReduceFrom(xs, i + 1,
            IF min = <<>> THEN <<xs[i]>>
            ELSE IF Lt(xs[i].total_amount, min[1].total_amount) THEN <<xs[i]>>
            ELSE min)

\* offers.reduce((min, o) => !min ? o : Number(o) < Number(min) ? o : min, null)
reduceCheapest(offers) == ReduceFrom(offers, 1, <<>>)

RECURSIVE PickFrom(_, _, _)
PickFrom(offers, i, cheapest) ==
    IF i > Len(offers) THEN cheapest
    ELSE PickFrom(offers, i + 1,
            IF ~IsFinite(offers[i].total_amount) THEN cheapest
            ELSE IF cheapest = <<>> THEN <<offers[i]>>
            ELSE IF offers[i].total_amount < cheapest[1].total_amount THEN <<offers[i]>>
            ELSE cheapest)

pickCheapestOffer(offers) == PickFrom(offers, 1, <<>>)

\* the destination's cheapest offer, as a sequence of zero or one offer
CheapestOf(offers) ==
    IF variant = "server" THEN pickCheapestOffer(offers) ELSE reduceCheapest(offers)

\* C2 mutant: the ceiling compared without regard to the currency
CeilingRejectsAnyCurrency(o) ==
    HasCeiling /\ Gt(o.total_amount, maxPriceUsd)

\* cheapest.total_currency === "USD" && Number(cheapest.total_amount) > maxPriceUsd
CeilingRejects(o) ==
    HasCeiling /\ o.total_currency = "USD" /\ Gt(o.total_amount, maxPriceUsd)

Item(d, o) == [destination |-> d, offer_id |-> o.id, total_amount |-> o.total_amount,
               total_currency |-> o.total_currency, instant |-> o.instant]

\* results after the candidate of one destination is kept
Push(r, item) ==
    IF variant = "part_003"
    THEN IF r = <<>> \/ Lt(item.total_amount, r[1].total_amount) THEN <<item>> ELSE r
    ELSE Append(r, item)

-----------------------------------------------------------------------------
(* Selection across destinations *)

\* results.reduce((min, r) => !min ? r : Number(r) < Number(min) ? r : min, null)
reduceWinner(r) == ReduceFrom(r, 1, <<>>)[1]

RECURSIVE BestFrom(_, _, _)
BestFrom(found, i, best) ==
    IF i > Len(found) THEN best
    ELSE BestFrom(found, i + 1,
            IF Lt(found[i].total_amount, best.total_amount) THEN found[i] ELSE best)

\* let best = offersFound[0]; for (const item of offersFound) ...
pickBest(found) == BestFrom(found, 1, found[1])

Winner(r) ==
    IF variant = "server" THEN pickBest(r)
    ELSE IF variant = "part_003" THEN r[1]
    ELSE reduceWinner(r)

QuoteOf(b, w) == [origin |-> Sent(b.origin), destination |-> w.destination,
                  offer_id |-> w.offer_id, total_amount |-> w.total_amount,
                  total_currency |-> w.total_currency,
                  passenger_name_parsed |->
                      IF variant = "server" THEN splitName(b.name) ELSE NoNameParsed]

\* the response once the loop has ended
Respond(b, r, e) ==
    IF r = <<>>
    THEN IF variant = "server"
         THEN ErrorRes(404, "No offers found for the provided origin/date.")
         ELSE [ErrorRes(502, "No eligible offers found")
                 EXCEPT !.errors_sample = Slice(e, DiagnosticsCap)]
    ELSE [NoRes EXCEPT !.status = 200, !.ok = TRUE, !.quote = <<QuoteOf(b, Winner(r))>>]

-----------------------------------------------------------------------------
(* History of what the provider returned to the search, kept apart from    *)
(* the handler's own selection: the least finite amount among the offers   *)
(* the ceiling rule admits (0: none yet), whether an offer priced below    *)
(* the ceiling was returned, whether any offer was returned, whether some  *)
(* total_amount did not parse, the destinations a step of which failed,    *)
(* and, for every destination that returned an offer the ceiling rule      *)
(* admits, the least finite amount among its admitted offers.  at[k] is    *)
(* the number of provider calls made when failed[k] failed.                *)

SeenNone == [below |-> FALSE, minElig |-> 0, any |-> FALSE, nan |-> FALSE,
             failed |-> <<>>, at |-> <<>>, passing |-> <<>>]

Admitted(o) ==
    ~(HasCeiling /\ o.total_currency = "USD" /\ o.total_amount > maxPriceUsd)

BelowCeiling(o) ==
    /\ o.total_amount # NaN
    /\ HasCeiling => (o.total_currency = "USD" /\ o.total_amount < maxPriceUsd)

RECURSIVE Observe(_, _, _)
Observe(s, offers, i) ==
    IF i > Len(offers) THEN s
    ELSE LET o == offers[i]
             a == o.total_amount
         IN  Observe([below |-> s.below \/ BelowCeiling(o),
                      minElig |-> IF a # NaN /\ Admitted(o)
                                     /\ (s.minElig = 0 \/ a < s.minElig)
                                  THEN a ELSE s.minElig,
                      any |-> TRUE,
                      nan |-> s.nan \/ a = NaN,
                      failed |-> s.failed,
                      at |-> s.at,
                      passing |-> s.passing],
                     offers, i + 1)

\* the offers of destination d have been returned
ObserveAt(s, d, offers) ==
    LET t == Observe([s EXCEPT !.minElig = 0], offers, 1)
    IN  [Observe(s, offers, 1) EXCEPT
            !.passing = IF t.minElig = 0 THEN @
                        ELSE Append(@, [destination |-> d, min |-> t.minElig])]

Failed(s, d) == [s EXCEPT !.failed = Append(@, d), !.at = Append(@, Len(calls))]

\* the locals of a handler that has not started
NoBody == [name |-> <<>>, origin |-> "", date |-> "", destinations |-> <<>>,
           kind |-> "none"]
NoPeer == [pc |-> "idle", body |-> NoBody, pool |-> <<>>, idx |-> 0, results |-> <<>>,
           errors |-> <<>>, cands |-> <<>>, rejected |-> <<>>, seen |-> SeenNone,
           calls |-> <<>>, res |-> NoRes]

-----------------------------------------------------------------------------
(* POST /quote *)

QuoteBodies ==
    [name : {<<>>, JaneDoe}, origin : {"", "BKK"}, date : {"", "2026-02-02"},
     destinations : IF variant = "server" THEN {<<>>} \cup Pools ELSE {<<>>},
     kind : {"quote"}]

\* C12 mutant: the date left out of the check of the required fields
MissingQuoteFieldButDate(b) == b.name = <<>> \/ b.origin = ""

\* !name || !origin || !date
MissingQuoteField(b) == b.name = <<>> \/ b.origin = "" \/ b.date = ""

\* allowedOrigins.length && !allowedOrigins.includes(origin)     (part_004)
\* !allowedOrigins.includes(origin)                              (part_000)
OriginRefused(b) ==
    IF variant = "part_004" THEN allowedOrigins # {} /\ b.origin \notin allowedOrigins
    ELSE IF variant = "part_000b" THEN b.origin \notin allowedOrigins
    ELSE FALSE

\* the checks before the loop, in the order of each file; NoRes: none failed
Prelude(b) ==
    CASE variant = "server" ->
           IF ~apiKey THEN ErrorRes(500, "Missing DUFFEL_API_KEY")
           ELSE IF MissingQuoteField(b) THEN ErrorRes(400, "Missing name, origin, or date")
           ELSE NoRes
      [] variant = "part_004" ->
           IF MissingQuoteField(b) THEN ErrorRes(400, "Missing name, origin, or date")
           ELSE IF ~apiKey THEN ErrorRes(500, "DUFFEL_API_KEY missing")
           ELSE IF OriginRefused(b) THEN ErrorRes(400, "Origin not allowed")
           ELSE IF destinationPool = <<>> THEN ErrorRes(500, "DESTINATION_POOL not configured")
           ELSE NoRes
      [] variant = "part_000b" ->
           IF MissingQuoteField(b) THEN ErrorRes(400, "Missing name, origin, or date")
           ELSE IF OriginRefused(b) THEN ErrorRes(400, "Origin not allowed")
           ELSE IF destinationPool = <<>> THEN ErrorRes(500, "DESTINATION_POOL not configured")
           ELSE IF ~apiKey THEN ErrorRes(500, "DUFFEL_ACCESS_TOKEN missing")
           ELSE NoRes
      [] OTHER ->
           IF MissingQuoteField(b) THEN ErrorRes(400, "Missing name, origin, or date")
           ELSE IF ~apiKey THEN ErrorRes(500, "DUFFEL_API_KEY missing")
           ELSE IF destinationPool = <<>> THEN ErrorRes(500, "DESTINATION_POOL not configured")
           ELSE NoRes

DestinationList(b) ==
    IF variant = "server"
    THEN IF b.destinations # <<>> THEN b.destinations ELSE DEFAULT_DESTINATIONS
    ELSE destinationPool

\* C18 mutant: the loop without its skip of the origin
NextIdxNoSkip(p, origin, i) == i

\* if (destination === origin) continue: the first position from i on to search
RECURSIVE NextIdx(_, _, _)
NextIdx(p, origin, i) ==
    IF i > Len(p) THEN i
    ELSE IF EqualsOrigin(p[i], origin) THEN NextIdx(p, origin, i + 1)
    ELSE i

Call(op, arg) == [op |-> op, arg |-> arg, passengers |-> <<>>, payment |-> FALSE,
                  payment_required |-> ""]
CreateCall(d) == Call("createOfferRequest", d)
ListCall(d) == Call("listOffers", d)

\* the loop from position i on, up to its next await or to the response
Continue(b, p, i, r, e, cl) ==
    LET j == NextIdx(p, b.origin, i)
    IN  /\ idx' = j
        /\ results' = r
        /\ errors' = e
        /\ IF j <= Len(p)
           THEN /\ calls' = Append(cl, CreateCall(Sent(p[j])))
                /\ pc' = "awaitCreate"
                /\ res' = NoRes
           ELSE /\ calls' = cl
                /\ pc' = "done"
                /\ res' = Respond(b, r, e)

\* catch (err) of the handler
Fatal ==
    /\ pc' = "done"
    /\ res' = ErrorRes(500, "Server error")
    /\ UNCHANGED <<idx, results, errors, calls>>

\* C17 mutant: one results array for all requests, at module level
SharedResults == peer.results

\* const results = []; in the handler
NewResults == <<>>

QuoteReceive(b) ==
    /\ pc = "idle"
    /\ body' = b
    /\ cands' = <<>>
    /\ rejected' = <<>>
    /\ seen' = SeenNone
    /\ IF Prelude(b) # NoRes
       THEN /\ pc' = "done"
            /\ res' = Prelude(b)
            /\ pool' = <<>>
            /\ idx' = 0
            /\ results' = <<>>
            /\ errors' = <<>>
            /\ calls' = <<>>
       ELSE /\ pool' = DestinationList(b)
            /\ Continue(b, DestinationList(b), 1, NewResults, <<>>, <<>>)
    /\ UNCHANGED <<config, order, naming, peer, offer, upstream>>

\* the destination's offers are in hand: select, filter, keep
Settle(offers, stepFailed) ==
    LET d == Sent(pool[idx])
        tagged == Tag(d, offers)
        c == CheapestOf(tagged)
        drop == c # <<>> /\ CeilingRejects(c[1])
        keep == c # <<>> /\ ~drop
    IN  /\ seen' = ObserveAt(IF stepFailed THEN Failed(seen, d) ELSE seen, d, offers)
        /\ rejected' = IF drop THEN Append(rejected, Item(d, c[1])) ELSE rejected
        /\ cands' = IF keep THEN Append(cands, Item(d, c[1])) ELSE cands
        /\ Continue(body, pool, idx + 1,
                    IF keep THEN Push(results, Item(d, c[1])) ELSE results,
                    errors, calls)

\* C16 mutant: the failed step is attempted again
SkipAndRetry(step, st) ==
    /\ Continue(body, pool, idx, results,
                IF HasDiagnostics
                THEN Append(errors, [step |-> step, destination |-> Sent(pool[idx]), status |-> st])
                ELSE errors,
                calls)
    /\ seen' = Failed(seen, Sent(pool[idx]))
    /\ UNCHANGED <<cands, rejected>>

\* a step of this destination failed: record (where the file does) and go on
Skip(step, st) ==
    /\ Continue(body, pool, idx + 1, results,
                IF HasDiagnostics
                THEN Append(errors, [step |-> step, destination |-> Sent(pool[idx]), status |-> st])
                ELSE errors,
                calls)
    /\ seen' = Failed(seen, Sent(pool[idx]))
    /\ UNCHANGED <<cands, rejected>>

\* fetch() rejected, or the body of an ok response did not parse
Thrown ==
    IF variant = "part_004"
    THEN Skip("exception", 0)
    ELSE Fatal /\ seen' = Failed(seen, Sent(pool[idx])) /\ UNCHANGED <<cands, rejected>>

InlineOffers == IF variant = "server" THEN OfferSeqs ELSE {<<>>}

\* the answer to POST /air/offer_requests, its inline offers drawn from inlines
CreateRespondsOf(inlines) ==
    /\ pc = "awaitCreate"
    /\ \/ Thrown
       \/ \E st \in SearchErrStatuses :
             IF variant \in {"server", "part_003"}
             THEN Skip("none", st)
             ELSE Skip("offer_request", st)
       \/ \E hasId \in BOOLEAN, inline \in inlines :
             IF variant = "server"
             THEN IF inline = <<>> /\ hasId
                  THEN /\ calls' = Append(calls, ListCall(Sent(pool[idx])))
                       /\ pc' = "awaitList"
                       /\ UNCHANGED <<idx, results, errors, cands, rejected, seen, res>>
                  ELSE Settle(inline, FALSE)
             ELSE IF ~hasId
                  THEN Continue(body, pool, idx + 1, results, errors, calls)
                       /\ UNCHANGED <<cands, rejected, seen>>
                  ELSE /\ calls' = Append(calls, ListCall(Sent(pool[idx])))
                       /\ pc' = "awaitList"
                       /\ UNCHANGED <<idx, results, errors, cands, rejected, seen, res>>
    /\ UNCHANGED <<config, order, naming, peer, body, pool, offer, upstream>>

CreateResponds == CreateRespondsOf(InlineOffers)

\* the answer to GET /air/offers, its offers drawn from offerSeqs
ListRespondsOf(offerSeqs) ==
    /\ pc = "awaitList"
    /\ \/ Thrown
       \/ \E st \in SearchErrStatuses :
             IF variant = "server"
             THEN Settle(<<>>, TRUE)
             ELSE IF variant = "part_003" THEN Skip("none", st)
             ELSE Skip("offers_fetch", st)
       \/ \E offers \in offerSeqs :
             IF variant # "server" /\ offers = <<>>
             THEN Continue(body, pool, idx + 1, results, errors, calls)
                  /\ UNCHANGED <<cands, rejected, seen>>
             ELSE Settle(offers, FALSE)
    /\ UNCHANGED <<config, order, naming, peer, body, pool, offer, upstream>>

ListResponds == ListRespondsOf(OfferSeqs)

NoOrder == [id |-> "", booking_reference |-> "", payment_required_by |-> "",
            expires_at |-> "", payment_due_at |-> "", total_amount |-> "",
            total_currency |-> ""]

NoOffer == [fetched |-> FALSE, passengers |-> <<>>, total_amount |-> "",
            total_currency |-> ""]

InitQuote ==
    /\ variant \in QuoteVariants
    /\ apiKey \in BOOLEAN
    /\ allowedOrigins \in (IF HasAllowList THEN {{}, {"BKK"}, {"PNH"}} ELSE {{}})
    /\ destinationPool \in (IF variant = "server" THEN {<<>>} ELSE {<<>>} \cup Pools)
    /\ maxPriceUsd \in (IF HasCeiling THEN Ceilings ELSE {0})
    /\ pc = "idle"
    /\ body = [name |-> <<>>, origin |-> "", date |-> "", destinations |-> <<>>,
               kind |-> "none"]
    /\ pool = <<>>
    /\ idx = 0
    /\ results = <<>>
    /\ errors = <<>>
    /\ cands = <<>>
    /\ rejected = <<>>
    /\ seen = SeenNone
    /\ offer = NoOffer
    /\ order = NoOrder
    /\ upstream = <<>>
    /\ calls = <<>>
    /\ res = NoRes
    /\ nameInput = <<>>
    /\ parsed = NoNameParsed
    /\ peer = NoPeer

NextQuote ==
    \/ \E b \in QuoteBodies : QuoteReceive(b)
    \/ CreateResponds
    \/ ListResponds

SpecQuote == InitQuote /\ [][NextQuote]_vars

-----------------------------------------------------------------------------
(* POST /hold *)

HoldBodies ==
    [kind : {"hold"},
     offer_id : {"", "off_1"},
     passenger_id : IF variant = "server" THEN {""} ELSE {"", "pas_9"},
     name : IF variant = "server" THEN {<<>>, Jane, JaneDoe} ELSE {<<>>},
     given_name : IF variant = "server" THEN {<<>>} ELSE {<<>>, Jane},
     family_name : IF variant = "server" THEN {<<>>} ELSE {<<>>, <<"D">>},
     email : IF variant = "server" THEN {""} ELSE {"", "jane@example.com"},
     born_on : IF variant = "part_000a" THEN {""} ELSE {"", "2000-02-02"},
     gender : IF variant = "part_001" THEN {"", "f"} ELSE {""},
     title : IF variant = "part_000a" THEN {""} ELSE {"", "ms"},
     phone_number : IF variant = "part_001" THEN {"", "+61400000000"} ELSE {""}]

\* what the provider answers with a non-success status
ErrBodies == [form : {"json", "text"}, text : {"offer_expired"}]

FetchedOffers ==
    [fetched : {TRUE},
     passengers : {<<>>, <<"pas_1">>, <<"pas_1", "pas_2">>},
     total_amount : {"", "45.00"},
     total_currency : {"", "USD"}]

Orders ==
    [id : {"", "ord_1"}, booking_reference : {"", "PNR1"},
     payment_required_by : {"", "2026-02-01T00:00:00Z"},
     expires_at : {"", "2026-02-01T12:00:00Z"},
     payment_due_at : {"", "2026-02-01T06:00:00Z"},
     total_amount : {"", "45.00"}, total_currency : {"", "USD"}]

\* missingFields(req.body, required)
missingFields(b) ==
    {f \in {"offer_id", "passenger_id", "given_name", "family_name", "email",
             "born_on", "gender", "title"} :
        \/ f = "offer_id" /\ b.offer_id = ""
        \/ f = "passenger_id" /\ b.passenger_id = ""
        \/ f = "given_name" /\ b.given_name = <<>>
        \/ f = "family_name" /\ b.family_name = <<>>
        \/ f = "email" /\ b.email = ""
        \/ f = "born_on" /\ b.born_on = ""
        \/ f = "gender" /\ b.gender = ""
        \/ f = "title" /\ b.title = ""}

\* a || b
Or(a, b) == IF a # "" THEN a ELSE b
OrNull(a) == Or(a, "null")

\* response.json().catch(() => null)                       (server.js)
\* JSON.parse(text), or { raw: text }                       (part_001)
ParsedBody(raw) ==
    IF raw.form = "json" THEN raw
    ELSE IF variant = "server" THEN [form |-> "null", text |-> ""]
    ELSE [form |-> "raw", text |-> raw.text]

\* C7 mutant: the passenger id taken from the request, not from the offer
OrderPassengersFromBody(b, o) ==
    [i \in 1..Len(o.passengers) |->
        [id |-> b.passenger_id, title |-> Or(b.title, "mr"),
         given_name |-> splitName(b.name).given_name,
         family_name |-> splitName(b.name).family_name,
         born_on |-> Or(b.born_on, "1990-01-01"),
         email |-> b.email, gender |-> b.gender, phone_number |-> b.phone_number]]

\* the passengers of the order request
OrderPassengers(b, o) ==
    CASE variant = "server" ->
           [i \in 1..Len(o.passengers) |->
               [id |-> o.passengers[i], title |-> Or(b.title, "mr"),
                given_name |-> splitName(b.name).given_name,
                family_name |-> splitName(b.name).family_name,
                born_on |-> Or(b.born_on, "1990-01-01"),
                email |-> "", gender |-> "", phone_number |-> ""]]
      [] variant = "part_000a" ->
           <<[id |-> b.passenger_id, title |-> "", given_name |-> b.given_name,
              family_name |-> b.family_name, born_on |-> "", email |-> b.email,
              gender |-> "", phone_number |-> ""]>>
      [] OTHER ->
           <<[id |-> b.passenger_id, title |-> b.title, given_name |-> b.given_name,
              family_name |-> b.family_name, born_on |-> b.born_on, email |-> b.email,
              gender |-> b.gender, phone_number |-> b.phone_number]>>

\* the body of POST /air/orders
OrderCall(b, o) ==
    [op |-> "createOrder", arg |-> b.offer_id, passengers |-> OrderPassengers(b, o),
     payment |-> (variant = "part_000a"),
     payment_required |-> IF variant = "server" THEN "false" ELSE ""]

\* the hold object of the response
Receipt(data, o) ==
    CASE variant = "server" ->
           [order_id |-> OrNull(data.id),
            booking_reference |-> OrNull(data.booking_reference),
            payment_required_by |-> OrNull(Or(data.expires_at, data.payment_due_at)),
            total_amount |-> OrNull(Or(data.total_amount, o.total_amount)),
            total_currency |-> OrNull(Or(data.total_currency, o.total_currency))]
      [] variant = "part_001" ->
           [order_id |-> data.id,
            booking_reference |-> OrNull(data.booking_reference),
            payment_required_by |-> OrNull(data.payment_required_by),
            total_amount |-> OrNull(data.total_amount),
            total_currency |-> OrNull(data.total_currency)]
      [] OTHER ->
           [order_id |-> data.id, booking_reference |-> data.booking_reference,
            payment_required_by |-> data.payment_required_by,
            total_amount |-> data.total_amount,
            total_currency |-> data.total_currency]

HoldPrelude(b) ==
    CASE variant = "server" ->
           IF ~apiKey THEN ErrorRes(500, "Missing DUFFEL_API_KEY")
           ELSE IF b.offer_id = "" \/ b.name = <<>>
                THEN ErrorRes(400, "Missing offer_id or name")
           ELSE NoRes
      [] variant = "part_000a" ->
           IF b.offer_id = "" \/ b.passenger_id = ""
           THEN ErrorRes(400, "Missing offer_id or passenger_id")
           ELSE NoRes
      [] OTHER ->
           IF missingFields(b) # {}
           THEN [ErrorRes(400, "Missing") EXCEPT !.missing = missingFields(b)]
           ELSE IF ~apiKey THEN ErrorRes(500, "Hold failed")
           ELSE NoRes

HoldReceive(b) ==
    /\ pc = "idle"
    /\ body' = b
    /\ IF HoldPrelude(b) # NoRes
       THEN /\ pc' = "done"
            /\ res' = HoldPrelude(b)
            /\ calls' = <<>>
       ELSE IF variant = "server"
       THEN /\ pc' = "awaitOffer"
            /\ calls' = <<Call("getOffer", b.offer_id)>>
            /\ res' = NoRes
       ELSE /\ pc' = "awaitOrder"
            /\ calls' = <<OrderCall(b, offer)>>
            /\ res' = NoRes
    /\ UNCHANGED <<config, order, naming, peer, pool, idx, results, errors, cands, rejected, seen,
                   offer, upstream>>

\* the answer to GET /air/offers/{id}, and the handler up to its next await
OfferResponds ==
    /\ pc = "awaitOffer"
    /\ \/ /\ pc' = "done"
          /\ res' = ErrorRes(500, "Server error")
          /\ UNCHANGED <<offer, upstream, calls>>
       \/ \E st \in ErrStatuses, raw \in ErrBodies :
             /\ pc' = "done"
             /\ res' = [ErrorRes(st, "Failed to fetch offer details")
                          EXCEPT !.details = ParsedBody(raw)]
             /\ upstream' = Append(upstream, [op |-> "getOffer", status |-> st,
                                              body |-> raw])
             /\ UNCHANGED <<offer, calls>>
       \/ \E o \in FetchedOffers :
             /\ offer' = o
             /\ calls' = Append(calls, OrderCall(body, o))
             /\ pc' = "awaitOrder"
             /\ UNCHANGED <<upstream, res>>
    /\ UNCHANGED <<config, order, naming, peer, body, pool, idx, results, errors, cands, rejected, seen>>

\* the answer to POST /air/orders, and the handler up to its response
OrderResponds ==
    /\ pc = "awaitOrder"
    /\ pc' = "done"
    /\ \/ /\ res' = ErrorRes(500, IF variant = "server" THEN "Server error"
                                   ELSE "Hold failed")
          /\ UNCHANGED <<upstream, order>>
       \/ \E st \in ErrStatuses, raw \in ErrBodies :
             /\ upstream' = Append(upstream, [op |-> "createOrder", status |-> st,
                                              body |-> raw])
             /\ UNCHANGED order
             /\ res' =
                  CASE variant = "server" ->
                         [ErrorRes(st, "Duffel order (hold) failed")
                            EXCEPT !.details = ParsedBody(raw)]
                    [] variant = "part_001" ->
                         [ErrorRes(st, "Hold failed") EXCEPT !.details = ParsedBody(raw)]
                    [] OTHER ->
                         IF raw.form = "json"
                         THEN [NoRes EXCEPT !.status = 200, !.ok = TRUE, !.details = raw]
                         ELSE ErrorRes(500, "Hold failed")
       \/ \E data \in Orders :
             /\ res' = [NoRes EXCEPT !.status = 200, !.ok = TRUE,
                                     !.hold = <<Receipt(data, offer)>>]
             /\ order' = data
             /\ UNCHANGED upstream
    /\ UNCHANGED <<config, naming, peer, body, pool, idx, results, errors, cands, rejected, seen,
                   offer, calls>>

InitHold ==
    /\ variant \in HoldVariants
    /\ apiKey \in BOOLEAN
    /\ allowedOrigins = {}
    /\ destinationPool = <<>>
    /\ maxPriceUsd = 0
    /\ pc = "idle"
    /\ body = [kind |-> "none", offer_id |-> "", passenger_id |-> "", name |-> <<>>,
               given_name |-> <<>>, family_name |-> <<>>, email |-> "", born_on |-> "",
               gender |-> "", title |-> "", phone_number |-> ""]
    /\ pool = <<>>
    /\ idx = 0
    /\ results = <<>>
    /\ errors = <<>>
    /\ cands = <<>>
    /\ rejected = <<>>
    /\ seen = SeenNone
    /\ offer = NoOffer
    /\ order = NoOrder
    /\ upstream = <<>>
    /\ calls = <<>>
    /\ res = NoRes
    /\ nameInput = <<>>
    /\ parsed = NoNameParsed
    /\ peer = NoPeer

NextHold ==
    \/ \E b \in HoldBodies : HoldReceive(b)
    \/ OfferResponds
    \/ OrderResponds

SpecHold == InitHold /\ [][NextHold]_vars

-----------------------------------------------------------------------------
(* The selection across destinations on its own: the loop of a search has  *)
(* ended with the candidates of up to three destinations, and the handler  *)
(* selects and responds.  server.js keeps no candidate whose amount does   *)
(* not parse (pickCheapestOffer); the other files may.                     *)

SelectPool == <<"PNH", "KUL", "SGN">>

Candidates(d) ==
    {Item(d, [id |-> <<d, 1>>, total_amount |-> a, total_currency |-> c,
              instant |-> FALSE]) :
        a \in (IF variant = "server" THEN 1..MaxAmount ELSE Amounts), c \in Currencies}

\* the candidates a loop over SelectPool can leave, in the order of the pool
CandidateLists ==
    LET opt(d) == {<<>>} \cup {<<c>> : c \in {x \in Candidates(d) : ~CeilingRejects(x)}}
    IN  {a \o b \o c : a \in opt(SelectPool[1]), b \in opt(SelectPool[2]),
                         c \in opt(SelectPool[3])}

RECURSIVE PushAll(_, _, _)
PushAll(r, items, i) ==
    IF i > Len(items) THEN r ELSE PushAll(Push(r, items[i]), items, i + 1)

SelectBody == [name |-> JaneDoe, origin |-> "BKK", date |-> "2026-02-02",
               destinations |-> <<>>, kind |-> "quote"]

Select ==
    /\ pc = "selecting"
    /\ pc' = "done"
    /\ res' = Respond(body, results, errors)
    /\ UNCHANGED <<config, order, naming, peer, body, pool, idx, results, errors, cands,
                   rejected, seen, offer, upstream, calls>>

InitSelect ==
    /\ variant \in QuoteVariants
    /\ apiKey = TRUE
    /\ allowedOrigins = {}
    /\ destinationPool = (IF variant = "server" THEN <<>> ELSE SelectPool)
    /\ maxPriceUsd \in (IF HasCeiling THEN Ceilings ELSE {0})
    /\ pc = "selecting"
    /\ body = [SelectBody EXCEPT
                  !.destinations = IF variant = "server" THEN SelectPool ELSE <<>>]
    /\ pool = SelectPool
    /\ idx = Len(SelectPool) + 1
    /\ cands \in CandidateLists
    /\ results = PushAll(<<>>, cands, 1)
    /\ errors = <<>>
    /\ rejected = <<>>
    /\ seen = SeenNone
    /\ offer = NoOffer
    /\ order = NoOrder
    /\ upstream = <<>>
    /\ calls = <<>>
    /\ res = NoRes
    /\ nameInput = <<>>
    /\ parsed = NoNameParsed
    /\ peer = NoPeer

NextSelect == Select

SpecSelect == InitSelect /\ [][NextSelect]_vars

-----------------------------------------------------------------------------
(* Two searches handled by one process.  A handler runs until its next     *)
(* await; the event loop may then run the handler of the other request.    *)
(* The variables hold the locals of the request whose handler runs, peer   *)
(* the locals of the other one.                                            *)

Locals == [pc |-> pc, body |-> body, pool |-> pool, idx |-> idx, results |-> results,
           errors |-> errors, cands |-> cands, rejected |-> rejected, seen |-> seen,
           calls |-> calls, res |-> res]

Switch ==
    /\ peer' = Locals
    /\ pc' = peer.pc
    /\ body' = peer.body
    /\ pool' = peer.pool
    /\ idx' = peer.idx
    /\ results' = peer.results
    /\ errors' = peer.errors
    /\ cands' = peer.cands
    /\ rejected' = peer.rejected
    /\ seen' = peer.seen
    /\ calls' = peer.calls
    /\ res' = peer.res
    /\ UNCHANGED <<config, order, naming, offer, upstream>>

ConcurrentPools == {<<"PNH">>, <<"KUL">>, <<"KUL", "PNH">>}
ConcurrentOffers ==
    {<<>>} \cup {<<[total_amount |-> a, total_currency |-> "USD", instant |-> FALSE]>> :
                      a \in {1, MaxAmount}}

ConcurrentBodies ==
    [name : {JaneDoe}, origin : {"BKK"}, date : {"2026-02-02"},
     destinations : IF variant = "server" THEN ConcurrentPools ELSE {<<>>},
     kind : {"quote"}]

InitConcurrent ==
    /\ InitQuote
    /\ apiKey
    /\ allowedOrigins = (IF variant = "part_000b" THEN {"BKK"} ELSE {})
    /\ maxPriceUsd \in {0, 1}
    /\ variant # "server" => destinationPool \in ConcurrentPools

NextConcurrent ==
    \/ \E b \in ConcurrentBodies : QuoteReceive(b)
    \/ CreateRespondsOf(IF variant = "server" THEN ConcurrentOffers ELSE {<<>>})
    \/ ListRespondsOf(ConcurrentOffers)
    \/ Switch

SpecConcurrent == InitConcurrent /\ [][NextConcurrent]_vars

-----------------------------------------------------------------------------
(* The search with origins and pools in either letter case.                *)

Codes == {"BKK", "bkk", "PNH"}
CodePools == {<<a>> : a \in Codes} \cup {<<a, b>> : a \in Codes, b \in Codes}

OriginBodies ==
    [name : {JaneDoe}, origin : {"BKK", "bkk"}, date : {"2026-02-02"},
     destinations : IF variant = "server" THEN CodePools ELSE {<<>>},
     kind : {"quote"}]

InitOrigin ==
    /\ variant \in QuoteVariants
    /\ apiKey = TRUE
    /\ allowedOrigins = (IF variant = "part_000b" THEN {"BKK", "bkk"} ELSE {})
    /\ destinationPool \in (IF variant = "server" THEN {<<>>} ELSE CodePools)
    /\ maxPriceUsd = (IF HasCeiling THEN MaxAmount ELSE 0)
    /\ pc = "idle"
    /\ body = NoBody
    /\ pool = <<>>
    /\ idx = 0
    /\ results = <<>>
    /\ errors = <<>>
    /\ cands = <<>>
    /\ rejected = <<>>
    /\ seen = SeenNone
    /\ offer = NoOffer
    /\ order = NoOrder
    /\ upstream = <<>>
    /\ calls = <<>>
    /\ res = NoRes
    /\ nameInput = <<>>
    /\ parsed = NoNameParsed
    /\ peer = NoPeer

NextOrigin ==
    \/ \E b \in OriginBodies : QuoteReceive(b)
    \/ CreateRespondsOf(IF variant = "server" THEN ConcurrentOffers ELSE {<<>>})
    \/ ListRespondsOf(ConcurrentOffers)

SpecOrigin == InitOrigin /\ [][NextOrigin]_vars

-----------------------------------------------------------------------------
(* Both endpoints of a server: a file serves /quote, /hold, or both.       *)

InitServer == InitQuote \/ InitHold

NextServer ==
    \/ variant \in QuoteVariants /\ NextQuote
    \/ variant \in HoldVariants /\ NextHold

SpecServer == InitServer /\ [][NextServer]_vars

-----------------------------------------------------------------------------
(* The name splitters on their own: splitName of server.js, and the        *)
(* expression of the first /quote handler of part_000, applied to every    *)
(* name over a small alphabet.                                             *)

MaxNameLen == 5
Chars == {"J", "D", " "}
Names == UNION {[1..n -> Chars] : n \in 0..MaxNameLen}
NameVariants == {"server", "part_000a"}

RECURSIVE SplitEach(_, _, _, _)
SplitEach(str, i, parts, cur) ==
    IF i > Len(str) THEN Append(parts, cur)
    ELSE IF str[i] = " " THEN SplitEach(str, i + 1, Append(parts, cur), <<>>)
    ELSE SplitEach(str, i + 1, parts, Append(cur, str[i]))

\* name.split(" ")
SplitOnSpace(str) == SplitEach(str, 1, <<>>, <<>>)

\* given_name: name.split(" ")[0],
\* family_name: name.split(" ").slice(1).join(" ") || "User"
passengerName(name) ==
    LET parts == SplitOnSpace(name)
        rest == Join(Tail(parts), <<" ">>)
    IN  [given_name |-> parts[1],
         family_name |-> IF rest = <<>> THEN User ELSE rest]

\* if (!name || ...) return: the first handler of part_000 splits no empty name
SplitName(n) ==
    /\ pc = "idle"
    /\ variant = "part_000a" => n # <<>>
    /\ nameInput' = n
    /\ parsed' = IF variant = "server" THEN splitName(n) ELSE passengerName(n)
    /\ pc' = "named"
    /\ UNCHANGED <<config, order, peer, body, pool, idx, results, errors, cands, rejected,
                   seen, offer, upstream, calls, res>>

InitName ==
    /\ variant \in NameVariants
    /\ apiKey = TRUE
    /\ allowedOrigins = {}
    /\ destinationPool = <<>>
    /\ maxPriceUsd = 0
    /\ pc = "idle"
    /\ body = NoBody
    /\ pool = <<>>
    /\ idx = 0
    /\ results = <<>>
    /\ errors = <<>>
    /\ cands = <<>>
    /\ rejected = <<>>
    /\ seen = SeenNone
    /\ offer = NoOffer
    /\ order = NoOrder
    /\ upstream = <<>>
    /\ calls = <<>>
    /\ res = NoRes
    /\ nameInput = <<>>
    /\ parsed = NoNameParsed
    /\ peer = NoPeer

NextName == \E n \in Names : SplitName(n)

SpecName == InitName /\ [][NextName]_vars

\* C11: the given name is the first whitespace-delimited token of the full
\* name and the family name is the remaining tokens joined by single
\* spaces; a one-token name has the placeholder family name, and a name
\* without any token has both placeholders.
C11_NameSplit ==
    pc = "named" =>
        LET tokens == SplitSpaces(nameInput)
        IN  /\ parsed.given_name = (IF tokens = <<>> THEN Test ELSE tokens[1])
            /\ parsed.family_name =
                  (IF Len(tokens) <= 1 THEN User ELSE Join(Tail(tokens), <<" ">>))

-----------------------------------------------------------------------------
(* Properties of both endpoints *)

MissingRequired ==
    \/ body.kind = "quote" /\ (body.name = <<>> \/ body.origin = "" \/ body.date = "")
    \/ body.kind = "hold" /\ body.offer_id = ""

ValidationError ==
    /\ res.status = 400
    /\ res.error \in {"Missing name, origin, or date", "Missing offer_id or name",
                       "Missing offer_id or passenger_id", "Missing"}

\* C12 as stated: a request with a required field missing or empty (name,
\* origin or date of a search, offerId of a hold) is answered with the input
\* validation error, and no provider call is made for it.
C12_ValidationErrorNoCall ==
    MissingRequired =>
        /\ calls = <<>>
        /\ pc = "done" => ValidationError

\* C12 amended: for such a request no provider call is made and the answer
\* is an error; it is the input validation error whenever the provider
\* credential is configured.
C12_NoCallAndError ==
    MissingRequired =>
        /\ calls = <<>>
        /\ pc = "done" => (res.status >= 400 /\ ~res.ok /\ (apiKey => ValidationError))

\* C12 witness: a hold without offerId was refused by the validation
C12_Witness ==
    /\ pc = "done" /\ body.kind = "hold" /\ body.offer_id = ""
    /\ body.name # <<>> /\ apiKey /\ ValidationError

CallsOf(op, arg) == {i \in 1..Len(calls) : calls[i].op = op /\ calls[i].arg = arg}

Outstanding(l) == l.pc \in {"awaitCreate", "awaitList"}

\* the attempt of request l at destination d was made and has been answered
Settled(l, d) ==
    /\ \E i \in 1..Len(l.calls) :
          l.calls[i].op = "createOfferRequest" /\ l.calls[i].arg = d
    /\ ~(Outstanding(l) /\ l.calls[Len(l.calls)].arg = d)

SelectionAfterAllSettled(l) ==
    /\ l.res # NoRes => ~Outstanding(l)
    /\ (l.res.quote # <<>> \/ l.res.error \in {"No eligible offers found",
                                  "No offers found for the provided origin/date."})
          => \A d \in {l.pool[i] : i \in 1..Len(l.pool)} \ {l.body.origin} : Settled(l, d)
    /\ \A i \in 1..Len(l.results) : Settled(l, l.results[i].destination)
    /\ \A i \in 1..Len(l.errors) : Settled(l, l.errors[i].destination)
    /\ l.res.quote # <<>> =>
          \E i \in 1..Len(l.results) :
              /\ l.res.quote[1].destination = l.results[i].destination
              /\ l.res.quote[1].offer_id = l.results[i].offer_id

\* C17: a search responds only when no provider call of it is outstanding,
\* and selects (a quote, or "no eligible offers") only after every
\* destination of its pool has settled; of two searches handled at the
\* same time, each one's results and diagnostics hold entries of its own
\* settled attempts only, and its quote is one of its own results.
C17_SelectionAfterAllSettled ==
    SelectionAfterAllSettled(Locals) /\ SelectionAfterAllSettled(peer)

\* C17 witness: both searches have kept a candidate and await a provider
\* answer at the same time
C17_Witness ==
    /\ Outstanding(Locals) /\ results # <<>>
    /\ Outstanding(peer) /\ peer.results # <<>>

-----------------------------------------------------------------------------
(* Properties of the fare search *)

Range(q) == {q[i] : i \in 1..Len(q)}

SearchDone == pc = "done" /\ body.kind = "quote"
Quoted == res.quote # <<>>
NoEligibleOffers ==
    res.error \in {"No eligible offers found",
                   "No offers found for the provided origin/date."}

\* C1: when some searched destination returned an offer priced below the
\* ceiling (every total_amount being a decimal string), the search answers
\* with a quote whose price is the least price among all the offers the
\* ceiling rule admits; the value depends on the offers only, not on the
\* order of the pool.
C1_TrueMinimumQuoted ==
    (SearchDone /\ seen.below /\ ~seen.nan) =>
        (Quoted /\ res.quote[1].total_amount = seen.minElig)

\* C2: the ceiling drops a candidate exactly when its currency is the
\* ceiling's (USD) and its price is strictly above the ceiling amount; a
\* candidate in another currency, or priced at the ceiling, is kept.
C2_CeilingSameCurrencyOnly ==
    HasCeiling =>
        /\ \A r \in Range(rejected) :
              r.total_currency = "USD" /\ r.total_amount > maxPriceUsd
        /\ \A c \in Range(cands) :
              ~(c.total_currency = "USD" /\ c.total_amount > maxPriceUsd)

\* C2 witness: a EUR candidate above the ceiling amount was kept while a USD
\* candidate of another destination was dropped.
C2_Witness ==
    /\ HasCeiling
    /\ \E c \in Range(cands) : c.total_currency = "EUR" /\ c.total_amount > maxPriceUsd
    /\ rejected # <<>>

\* C3: with a non-empty allow-list that lacks the origin the search is
\* refused without any provider call; with an empty or absent allow-list
\* no search is refused by the origin check.
C3_OriginAllowList ==
    /\ (SearchDone /\ allowedOrigins # {} /\ body.origin \notin allowedOrigins)
          => (calls = <<>> /\ ~Quoted /\ res.status >= 400)
    /\ (SearchDone /\ allowedOrigins = {}) => res.error # "Origin not allowed"

\* C4: when every destination's provider call failed or returned no offers,
\* the search ends with the "no eligible offers" outcome, carrying at most
\* 5 diagnostics.
C4_AllFailedNoEligibleOffers ==
    (SearchDone /\ Prelude(body) = NoRes /\ ~seen.any) =>
        (NoEligibleOffers /\ Len(res.errors_sample) <= 5)

\* C5: a failed createOfferRequest or listOffers step of one destination is
\* recorded as a diagnostic of that destination and is not fatal: every
\* destination of the pool other than the origin is still attempted, and a
\* quote is returned when another destination produced a candidate.
C5_FailureRecordedNotFatal ==
    (SearchDone /\ seen.failed # <<>>) =>
        /\ \A d \in Range(seen.failed) : \E e \in Range(errors) : e.destination = d
        /\ \A d \in Range(pool) \ {body.origin} : CreateCall(d) \in Range(calls)
        /\ cands # <<>> => Quoted

\* C14: a destination that returned at least one offer passing the ceiling
\* contributes a candidate, and that candidate is the least-priced of its
\* offers that pass the ceiling, also when its cheapest offer does not pass.
C14_CeilingBeforeMinimum ==
    \A p \in Range(seen.passing) :
        \E c \in Range(cands) :
            c.destination = p.destination /\ c.total_amount = p.min

FiniteCands == {i \in 1..Len(cands) : cands[i].total_amount # NaN}
MinCands ==
    {i \in FiniteCands :
        \A j \in FiniteCands : cands[i].total_amount <= cands[j].total_amount}

\* C15: when two or more candidates share the least price of all
\* candidates, the quote is the one of them whose destination comes first
\* in the pool.
C15_TieToEarliestDestination ==
    (SearchDone /\ Quoted /\ Cardinality(MinCands) >= 2) =>
        \E i \in MinCands :
            /\ \A j \in MinCands : i <= j
            /\ res.quote[1].destination = cands[i].destination
            /\ res.quote[1].offer_id = cands[i].offer_id

\* C18: no provider call of a search is made for a destination equal to the
\* origin of the search, and the destination of a quote is never the origin.
C18_OriginNeverSearched ==
    body.kind = "quote" =>
        /\ \A i \in 1..Len(calls) : calls[i].arg # body.origin
        /\ Quoted => /\ res.quote[1].destination # body.origin
                     /\ res.quote[1].destination # res.quote[1].origin

\* C18 witness: a search whose pool lists its origin ended with a quote
C18_Witness ==
    /\ SearchDone /\ Quoted
    /\ \E i \in 1..Len(pool) : pool[i] = body.origin

\* C20: an offer whose total_amount is no finite number is not the candidate
\* of a destination that returned a finite-priced offer, is not kept by a
\* file with a price ceiling (it would pass the ceiling unchecked), and is
\* not the quote when some finite-priced offer was admitted.
C20_NonFiniteNeverSelected ==
    /\ \A c \in Range(cands) :
          c.total_amount = NaN =>
              /\ ~HasCeiling
              /\ \A p \in Range(seen.passing) : p.destination # c.destination
    /\ (SearchDone /\ Quoted /\ seen.minElig # 0) => res.quote[1].total_amount # NaN

\* The hold preference of the policy; the handlers have no such input.
preferHoldEligible == TRUE

HoldEligible == {c \in Range(cands) : ~c.instant}

\* C6: with preferHoldEligible set, when some candidate is hold-eligible the
\* winner is the cheapest hold-eligible candidate; when none is, the winner
\* is the cheapest candidate overall.
C6_HoldEligiblePreferred ==
    (preferHoldEligible /\ SearchDone /\ Quoted /\ ~seen.nan) =>
        LET among == IF HoldEligible # {} THEN HoldEligible ELSE Range(cands)
        IN  /\ \E c \in among : c.offer_id = res.quote[1].offer_id
            /\ \A c \in among : res.quote[1].total_amount <= c.total_amount

-----------------------------------------------------------------------------
(* Properties of the hold flow *)

HoldDone == pc = "done" /\ body.kind = "hold"
OrderCalls == {i \in 1..Len(calls) : calls[i].op = "createOrder"}
OfferCallsBefore(i) == {j \in 1..(i - 1) : calls[j].op = "getOffer"}

C8_MissingPassengerNoOrder ==
    (body.kind = "hold" /\ body.passenger_id = "" /\ offer.fetched
       /\ offer.passengers = <<>>) =>
        /\ OrderCalls = {}
        /\ pc = "done" => (res.status = 400 /\ res.details = NoDetails)

\* C9: no createOrder call of a hold request carries a payment instruction.
C9_NoPaymentInOrder ==
    \A i \in OrderCalls : ~calls[i].payment

\* C10: once the provider has answered getOffer or createOrder with a
\* non-success status, the hold does not report success, and the response
\* carries that status and that payload; after a failed getOffer no
\* createOrder call is made.
C10_ProviderErrorPassedThrough ==
    (HoldDone /\ upstream # <<>>) =>
        /\ ~res.ok /\ res.hold = <<>>
        /\ res.status = upstream[1].status
        /\ res.details.form \in {"json", "raw"}
        /\ res.details.text = upstream[1].body.text
        /\ upstream[1].op = "getOffer" => OrderCalls = {}

NameSupplied ==
    IF variant = "server" THEN body.name # <<>>
    ELSE body.given_name # <<>> /\ body.family_name # <<>>

PassengerResolvable == body.passenger_id # "" \/ offer.passengers # <<>>

\* C13: a hold with an offerId, a name and a resolvable passenger reaches
\* createOrder whichever of title, email, phone, birth date and gender it
\* omits, and every passenger of the order carries a value (the given one
\* or the default) for each of these attributes.
C13_OptionalFieldsDefaulted ==
    (body.kind = "hold" /\ body.offer_id # "" /\ apiKey /\ NameSupplied
       /\ PassengerResolvable) =>
        /\ pc = "done" => OrderCalls # {}
        /\ \A i \in OrderCalls : \A p \in Range(calls[i].passengers) :
              /\ p.title # "" /\ p.email # "" /\ p.phone_number # ""
              /\ p.born_on # "" /\ p.gender # ""

\* C19: every field of the hold receipt that the provider's order leaves
\* out is reported as null, whatever the offer fetched before holds; a
\* field the order has is reported as the order has it.
C19_OmittedReceiptFieldsNull ==
    (HoldDone /\ res.hold # <<>>) =>
        LET h == res.hold[1]
        IN  /\ h.order_id = OrNull(order.id)
            /\ h.booking_reference = OrNull(order.booking_reference)
            /\ h.total_amount = OrNull(order.total_amount)
            /\ h.total_currency = OrNull(order.total_currency)
            /\ (order.payment_required_by = "" /\ order.expires_at = ""
                   /\ order.payment_due_at = "") => h.payment_required_by = "null"

====
